---- MODULE Spec2Model ----
(***************************************************************************)
(* A model of the pgml host-language bridge:                               *)
(*   - the value bridge  (Json::into_py / Json::extract, python.rs)         *)
(*   - the stream bridge (TransformerStreamPython::__anext__, python.rs)    *)
(*   - the runtime singleton (get_or_set_runtime, lib.rs)                   *)
(*   - the logger singleton  (SimpleLogger / init_logger / pgml, lib.rs)    *)
(* Each component has its own specification (SpecValue, SpecStream,         *)
(* SpecRuntime, SpecLogger); the variables of the other components stay at  *)
(* their initial values.                                                    *)
(***************************************************************************)
EXTENDS Integers, Sequences, FiniteSets, TLC

VARIABLES
    \* value bridge
    vop,        \* the conversion asked for: "into_py" | "extract"
    vjson,      \* the argument of into_py (JNull when the call is extract)
    vob,        \* the argument of extract (PyNone when the call is into_py)
    vpc,        \* "start" | "into_py" | "extract" | "roundtrip"
    vhost,      \* result of into_py (a Result over host objects), or NoResult
    vout        \* result of extract (a Result over Json values), or NoResult

vvars == <<vop, vjson, vob, vpc, vhost, vout>>

VARIABLES
    \* stream bridge
    stream,     \* the elements the native sequence holds: Ok(json) or Err(..)
    pos,        \* how many of them the native sequence has emitted
    sfailed,    \* the native sequence has emitted a failure
    lock,       \* the task holding the guard of `wrapped`, 0 when free
    waiters,    \* the tasks queued on the mutex, oldest first
    spc,        \* per task: "idle" | "spawned" | "waiting" | "locked" | "pulled"
    item,       \* per task: what ts.next() gave it: <<>> (None) or <<element>>
    itemidx,    \* per task: the position of that element in stream (0 if None)
    issued,     \* the number of __anext__ calls made so far
    resolved,   \* the outcomes of the futures, in the order they resolved
    acquired,   \* how many times the guard has been handed out
    ticket,     \* per task: the rank of its acquisition of the guard (0: none)
    pulled,     \* the ts.next() calls that completed: [by, idx], in order
    handle,     \* the host still holds the TransformerStreamPython object
    refs,       \* the strong count of the Arc `wrapped`
    sdropped,   \* the native sequence has been dropped
    abandoned   \* the tasks whose step was under way when the host let go

svars == <<stream, pos, sfailed, lock, waiters, spc, item, itemidx, issued, resolved,
           acquired, ticket, pulled, handle, refs, sdropped, abandoned>>

VARIABLES
    \* runtime singleton
    RUNTIME,    \* the static: 0 is None, n > 0 is Some(the n-th runtime built)
    built,      \* the number of runtimes built so far
    dropped,    \* the runtimes dropped (overwritten in RUNTIME)
    rpc,        \* per thread: "idle" | "check" | "build" | "set"
    runtime,    \* per thread: the local `runtime` it built (0 if none)
    rdepth,     \* per thread: how many recursive self-calls its call has made
    rcalls,     \* the number of get_or_set_runtime calls made so far
    overlapped, \* some call started while another was under way
    returned    \* the calls that returned: [by, id, depth], in order

rvars == <<RUNTIME, built, dropped, rpc, runtime, rdepth, rcalls, overlapped, returned>>

VARIABLES
    \* logger singleton
    logger,     \* log's global logger: "Nop" until set_logger succeeds
    max_level,  \* log's global maximum level filter
    installs,   \* the install attempts: [who, level, res, panicked], in order
    out,        \* the lines printed: <<level, message>>, in order
    records     \* the log! calls made: [level, msg, logger, filter, lines]

lvars == <<logger, max_level, installs, out, records>>

vars == <<vvars, svars, rvars, lvars>>

----------------------------------------------------------------------------
(* Bounds                                                                   *)

\* Largest number of nodes (scalars and containers) of an input value.
MaxNodes == 3
\* Largest number of elements of a native sequence.
MaxStream == 2
\* Number of host tasks stepping one stream.
NumTasks == 2
\* Largest number of __anext__ calls on one stream.
MaxSteps == 3
\* Number of threads calling get_or_set_runtime.
NumThreads == 2
\* Largest number of get_or_set_runtime calls.
MaxCalls == 3
\* Largest number of logger install attempts.
MaxInstalls == 2
\* Largest number of lines logged.
MaxLines == 2

----------------------------------------------------------------------------
(* Results: Ok(v), a recoverable PyErr, or a panic (unwinding / abort).     *)
(* The payload of Ok is the one element of v; e names the error or panic.   *)

Ok(x) == [r |-> "Ok", e |-> "", v |-> <<x>>]
Err(e) == [r |-> "Err", e |-> e, v |-> <<>>]
Panic(msg) == [r |-> "Panic", e |-> msg, v |-> <<>>]
NoResult == [r |-> "None", e |-> "", v |-> <<>>]
IsOk(res) == res.r = "Ok"
Val(res) == res.v[1]

----------------------------------------------------------------------------
(* Integers. The 64-bit boundaries are beyond TLC's integers, so an integer  *)
(* is an anchor plus a small offset: I("i64max", 1) is 2^63.                *)

I(a, d) == [a |-> a, d |-> d]
AnchorRank == [i64min |-> 1, zero |-> 2, i64max |-> 3, u64max |-> 4]
IntLeq(x, y) ==
    \/ AnchorRank[x.a] < AnchorRank[y.a]
    \/ x.a = y.a /\ x.d <= y.d
I64_MIN == I("i64min", 0)
I64_MAX == I("i64max", 0)
U64_MAX == I("u64max", 0)
IntZero == I("zero", 0)
InI64(x) == IntLeq(I64_MIN, x) /\ IntLeq(x, I64_MAX)
InU64(x) == IntLeq(IntZero, x) /\ IntLeq(x, U64_MAX)

(* Floats are named by their literal; the non-finite ones are these.        *)
NonFinite == {"nan", "inf", "-inf"}

----------------------------------------------------------------------------
(* serde_json::Number: PosInt(u64) | NegInt(i64 < 0) | Float(finite f64).   *)
(* Every record keeps all its fields, the unused ones at a fixed filler.    *)

PosInt(i) == [n |-> "PosInt", i |-> i, f |-> ""]
NegInt(i) == [n |-> "NegInt", i |-> i, f |-> ""]
Float(f) == [n |-> "Float", i |-> IntZero, f |-> f]
NoNumber == [n |-> "None", i |-> IntZero, f |-> ""]

\* Number::is_f64
is_f64(x) == x.n = "Float"
\* Number::as_i64: None for a PosInt above i64::MAX and for a Float
as_i64(x) ==
    CASE x.n = "PosInt" -> IF IntLeq(x.i, I64_MAX) THEN Ok(x.i) ELSE NoResult
      [] x.n = "NegInt" -> Ok(x.i)
      [] OTHER -> NoResult
\* Number::as_f64 of a Float
as_f64(x) == IF x.n = "Float" THEN Ok(x.f) ELSE NoResult
\* impl From<i64> for Number
NumberFromI64(i) == IF IntLeq(IntZero, i) THEN PosInt(i) ELSE NegInt(i)
\* Number::from_f64: None unless the float is finite
from_f64(f) == IF f \in NonFinite THEN NoResult ELSE Ok(Float(f))

----------------------------------------------------------------------------
(* serde_json::Value. k is the variant; b, n, s hold the scalar; c holds    *)
(* the elements of an Array or the values of an Object, whose keys are ks   *)
(* (the map's entries in map order).                                        *)

JBlank == [k |-> "Null", b |-> FALSE, n |-> NoNumber, s |-> "", ks |-> <<>>, c |-> <<>>]
JNull == JBlank
JBool(b) == [JBlank EXCEPT !.k = "Bool", !.b = b]
JNumber(n) == [JBlank EXCEPT !.k = "Number", !.n = n]
JString(s) == [JBlank EXCEPT !.k = "String", !.s = s]
JArray(c) == [JBlank EXCEPT !.k = "Array", !.c = c]
JObject(m) == [JBlank EXCEPT !.k = "Object", !.ks = m.ks, !.c = m.c]

\* serde_json::Map: keys and values, in map order
EmptyMap == [ks |-> <<>>, c |-> <<>>]
\* (a faulty Map::insert, which puts a new entry first)
MapInsert_Prepend(m, key, x) ==
    IF \E i \in 1..Len(m.ks) : m.ks[i] = key
    THEN [m EXCEPT !.c = [i \in 1..Len(m.c) |-> IF m.ks[i] = key THEN x ELSE m.c[i]]]
    ELSE [ks |-> <<key>> \o m.ks, c |-> <<x>> \o m.c]
\* Map::insert: replaces the value of a key already there, else appends
MapInsert(m, key, x) ==
    IF \E i \in 1..Len(m.ks) : m.ks[i] = key
    THEN [m EXCEPT !.c = [i \in 1..Len(m.c) |-> IF m.ks[i] = key THEN x ELSE m.c[i]]]
    ELSE [ks |-> Append(m.ks, key), c |-> Append(m.c, x)]

----------------------------------------------------------------------------
(* Host (Python) objects: t is the type; b, i, f, s hold the scalar; c      *)
(* holds the items of a list or the values of a dict, whose key objects     *)
(* are ks (in the dict's insertion order).                                  *)

PyBlank == [t |-> "NoneType", b |-> FALSE, i |-> IntZero, f |-> "", s |-> "", ks |-> <<>>, c |-> <<>>]
PyNone == PyBlank
PyBool(b) == [PyBlank EXCEPT !.t = "bool", !.b = b]
PyInt(i) == [PyBlank EXCEPT !.t = "int", !.i = i]
PyFloat(f) == [PyBlank EXCEPT !.t = "float", !.f = f]
PyString(s) == [PyBlank EXCEPT !.t = "str", !.s = s]
PyList(c) == [PyBlank EXCEPT !.t = "list", !.c = c]
PyDict(d) == [PyBlank EXCEPT !.t = "dict", !.ks = d.ks, !.c = d.c]
\* A host object of a type the bridge does not know.
PyBytes == [PyBlank EXCEPT !.t = "bytes"]

\* The classes an object of type t is an instance of (bool subclasses int).
Mro(t) == IF t = "bool" THEN {"bool", "int"} ELSE {t}
is_instance_of(ob, cls) == cls \in Mro(ob.t)
is_none(ob) == ob.t = "NoneType"

\* PyList::append
ListAppend(l, x) == Append(l, x)
\* PyDict::new and PyDict::set_item (a key already there keeps its place)
EmptyDict == [ks |-> <<>>, c |-> <<>>]
DictSetItem(d, key, x) ==
    IF \E i \in 1..Len(d.ks) : d.ks[i] = key
    THEN [d EXCEPT !.c = [i \in 1..Len(d.c) |-> IF d.ks[i] = key THEN x ELSE d.c[i]]]
    ELSE [ks |-> Append(d.ks, key), c |-> Append(d.c, x)]

\* bool::extract
ExtractBool(ob) == Ok(ob.b)
\* i64::extract: OverflowError outside the signed 64-bit range
ExtractI64(ob) == IF InI64(ob.i) THEN Ok(ob.i) ELSE Err("OverflowError")
\* f64::extract
ExtractF64(ob) == Ok(ob.f)
\* String::extract: TypeError unless the object is a str
ExtractString(ob) ==
    IF is_instance_of(ob, "str") THEN Ok(ob.s) ELSE Err("TypeError")

----------------------------------------------------------------------------
(* impl IntoPy<PyObject> for Json                                           *)

\* the Number arm
IntoPyNumber(x) ==
    IF is_f64(x)
    THEN IF IsOk(as_f64(x))
         THEN Ok(PyFloat(Val(as_f64(x))))
         ELSE Panic("Error converting to f64 in impl ToPyObject for Json")
    ELSE IF IsOk(as_i64(x))
         THEN Ok(PyInt(Val(as_i64(x))))
         ELSE Panic("Error converting to i64 in impl ToPyObject for Json")

RECURSIVE into_py(_), IntoPyList(_, _, _), IntoPyDict(_, _, _)

\* the loop of the Array arm: elements i.. of x appended to list
IntoPyList(x, i, list) ==
    IF i > Len(x) THEN Ok(PyList(list))
    ELSE LET e == into_py(x[i])
         IN  IF IsOk(e) THEN IntoPyList(x, i + 1, ListAppend(list, Val(e))) ELSE e

\* the loop of the Object arm: entries i.. of the map j set into dict
IntoPyDict(j, i, dict) ==
    IF i > Len(j.ks) THEN Ok(PyDict(dict))
    ELSE LET e == into_py(j.c[i])
         IN  IF IsOk(e)
             THEN IntoPyDict(j, i + 1, DictSetItem(dict, PyString(j.ks[i]), Val(e)))
             ELSE e

into_py(j) ==
    CASE j.k = "Bool" -> Ok(PyBool(j.b))
      [] j.k = "Number" -> IntoPyNumber(j.n)
      [] j.k = "String" -> Ok(PyString(j.s))
      [] j.k = "Array" -> IntoPyList(j.c, 1, <<>>)
      [] j.k = "Object" -> IntoPyDict(j, 1, EmptyDict)
      [] j.k = "Null" -> Ok(PyNone)

----------------------------------------------------------------------------
(* impl FromPyObject for Json                                               *)

\* (a faulty arm that converts without the range test)
ExtractInt_Unchecked(ob) == Ok(JNumber(NumberFromI64(ob.i)))
\* the PyInt arm
ExtractInt(ob) ==
    IF IsOk(ExtractI64(ob))
    THEN Ok(JNumber(NumberFromI64(Val(ExtractI64(ob)))))
    ELSE ExtractI64(ob)

\* the PyFloat arm
ExtractFloat(ob) ==
    IF IsOk(from_f64(Val(ExtractF64(ob))))
    THEN Ok(JNumber(Val(from_f64(Val(ExtractF64(ob))))))
    ELSE Panic("Could not convert f64 to serde_json::Number")

\* the final else arm: None is Null, anything else is not handled
ExtractOther(ob) ==
    IF is_none(ob) THEN Ok(JNull)
    ELSE Panic("Unsupported type for JSON conversion")

RECURSIVE extract(_), ExtractDict(_, _, _), ExtractList(_, _, _)

\* the loop of the dict arm: the value is extracted before the key
ExtractDict(dict, i, json) ==
    IF i > Len(dict.ks) THEN Ok(JObject(json))
    ELSE LET value == extract(dict.c[i])
             key == ExtractString(dict.ks[i])
         IN  IF ~IsOk(value) THEN value
             ELSE IF ~IsOk(key) THEN key
             ELSE ExtractDict(dict, i + 1, MapInsert(json, Val(key), Val(value)))

\* the loop of the list arm
ExtractList(value, i, json_values) ==
    IF i > Len(value) THEN Ok(JArray(json_values))
    ELSE LET v == extract(value[i])
         IN  IF IsOk(v)
             THEN ExtractList(value, i + 1, Append(json_values, Val(v)))
             ELSE v

\* (the type tests with the int test made before the bool test)
Classify_IntFirst(ob) ==
    IF is_instance_of(ob, "dict") THEN "dict"
    ELSE IF is_instance_of(ob, "int") THEN "int"
    ELSE IF is_instance_of(ob, "bool") THEN "bool"
    ELSE IF is_instance_of(ob, "float") THEN "float"
    ELSE IF is_instance_of(ob, "str") THEN "str"
    ELSE IF is_instance_of(ob, "list") THEN "list"
    ELSE "other"
\* The type tests of extract, in the order the code makes them.
Classify(ob) ==
    IF is_instance_of(ob, "dict") THEN "dict"
    ELSE IF is_instance_of(ob, "bool") THEN "bool"
    ELSE IF is_instance_of(ob, "int") THEN "int"
    ELSE IF is_instance_of(ob, "float") THEN "float"
    ELSE IF is_instance_of(ob, "str") THEN "str"
    ELSE IF is_instance_of(ob, "list") THEN "list"
    ELSE "other"

extract(ob) ==
    LET c == Classify(ob)
    IN  CASE c = "dict" -> ExtractDict(ob, 1, EmptyMap)
          [] c = "bool" -> Ok(JBool(Val(ExtractBool(ob))))
          [] c = "int" -> ExtractInt(ob)
          [] c = "float" -> ExtractFloat(ob)
          [] c = "str" -> Ok(JString(Val(ExtractString(ob))))
          [] c = "list" -> ExtractList(ob.c, 1, <<>>)
          [] OTHER -> ExtractOther(ob)

----------------------------------------------------------------------------
(* Inputs of the value bridge: every value of at most MaxNodes nodes over   *)
(* these scalars and keys.                                                  *)

Keys == {"a", "b"}

JsonAtoms ==
    { JNull, JBool(TRUE), JBool(FALSE),
      JNumber(PosInt(I("zero", 1))),
      JNumber(PosInt(I64_MAX)),
      JNumber(PosInt(I("i64max", 1))),
      JNumber(NegInt(I64_MIN)),
      JNumber(Float("1.5")),
      JString("s") }

HostAtoms ==
    { PyNone, PyBool(TRUE),
      PyInt(I("zero", 1)),
      PyInt(I("i64max", 1)),
      PyInt(I("i64min", -1)),
      PyFloat("1.5"), PyFloat("nan"), PyFloat("inf"),
      PyString("s"),
      PyBytes }

\* dict keys: a string and a key that is not a string
HostKeys == { PyString("a"), PyInt(I("zero", 1)) }

\* the sequences of n distinct elements of S
RECURSIVE Distinct(_, _)
Distinct(S, n) ==
    IF n = 0 THEN {<<>>}
    ELSE UNION { { <<x>> \o r : r \in Distinct(S \ {x}, n - 1) } : x \in S }

RECURSIVE JsonOfSize(_), JsonSeqs(_)
\* the sequences of values of m nodes in all
JsonSeqs(m) ==
    IF m = 0 THEN {<<>>}
    ELSE UNION { { <<x>> \o r : x \in JsonOfSize(i), r \in JsonSeqs(m - i) }
                 : i \in 1..m }
JsonOfSize(n) ==
    IF n = 1 THEN JsonAtoms \cup {JArray(<<>>), JObject(EmptyMap)}
    ELSE { JArray(s) : s \in JsonSeqs(n - 1) }
         \cup UNION { { JObject([ks |-> ks, c |-> s]) : ks \in Distinct(Keys, Len(s)) }
                      : s \in JsonSeqs(n - 1) }
JsonValues == UNION { JsonOfSize(n) : n \in 1..MaxNodes }

RECURSIVE HostOfSize(_), HostSeqs(_)
HostSeqs(m) ==
    IF m = 0 THEN {<<>>}
    ELSE UNION { { <<x>> \o r : x \in HostOfSize(i), r \in HostSeqs(m - i) }
                 : i \in 1..m }
HostOfSize(n) ==
    IF n = 1 THEN HostAtoms \cup {PyList(<<>>), PyDict(EmptyDict)}
    ELSE { PyList(s) : s \in HostSeqs(n - 1) }
         \cup UNION { { PyDict([ks |-> ks, c |-> s]) : ks \in Distinct(HostKeys, Len(s)) }
                      : s \in HostSeqs(n - 1) }
HostValues == UNION { HostOfSize(n) : n \in 1..MaxNodes }

----------------------------------------------------------------------------
(* The value bridge as a state machine: one conversion per behaviour, and   *)
(* the host object a successful into_py returned handed back to extract.    *)

VInit ==
    /\ vop \in {"into_py", "extract"}
    /\ vjson \in (IF vop = "into_py" THEN JsonValues ELSE {JNull})
    /\ vob \in (IF vop = "extract" THEN HostValues ELSE {PyNone})
    /\ vpc = "start"
    /\ vhost = NoResult
    /\ vout = NoResult

\* Json::into_py(vjson)
CallIntoPy ==
    /\ vpc = "start"
    /\ vop = "into_py"
    /\ vhost' = into_py(vjson)
    /\ vpc' = "into_py"
    /\ UNCHANGED <<vop, vjson, vob, vout>>
    /\ UNCHANGED <<svars, rvars, lvars>>

\* Json::extract(vob)
CallExtract ==
    /\ vpc = "start"
    /\ vop = "extract"
    /\ vout' = extract(vob)
    /\ vpc' = "extract"
    /\ UNCHANGED <<vop, vjson, vob, vhost>>
    /\ UNCHANGED <<svars, rvars, lvars>>

\* Json::extract of the object into_py returned
CallExtractBack ==
    /\ vpc = "into_py"
    /\ IsOk(vhost)
    /\ vout' = extract(Val(vhost))
    /\ vpc' = "roundtrip"
    /\ UNCHANGED <<vop, vjson, vob, vhost>>
    /\ UNCHANGED <<svars, rvars, lvars>>

VNext == CallIntoPy \/ CallExtract \/ CallExtractBack

\* no conversion asked for
VIdle ==
    /\ vop = "none"
    /\ vjson = JNull
    /\ vob = PyNone
    /\ vpc = "start"
    /\ vhost = NoResult
    /\ vout = NoResult

----------------------------------------------------------------------------
(* The stream bridge: TransformerStreamPython                               *)

Tasks == 1..NumTasks

\* impl ToPyObject for Json (to_object): the conversion of a delivered
\* element; the specification makes it the total to_host of section 4.1.
RECURSIVE ToObject(_)
ToObject(j) ==
    CASE j.k = "Bool" -> PyBool(j.b)
      [] j.k = "Number" -> IF is_f64(j.n) THEN PyFloat(j.n.f) ELSE PyInt(j.n.i)
      [] j.k = "String" -> PyString(j.s)
      [] j.k = "Array" -> PyList([i \in 1..Len(j.c) |-> ToObject(j.c[i])])
      [] j.k = "Object" ->
            PyDict([ks |-> [i \in 1..Len(j.ks) |-> PyString(j.ks[i])],
                    c |-> [i \in 1..Len(j.c) |-> ToObject(j.c[i])]])
      [] j.k = "Null" -> PyNone

\* TransformerStream as a Stream: the next element, or None once the
\* sequence is exhausted or has emitted a failure (not restartable).
StreamNext(seq, p, failed) ==
    IF p < Len(seq) /\ ~failed THEN <<seq[p + 1]>> ELSE <<>>

\* what a future resolves to
Outcome(kind, res) == [kind |-> kind, obj |-> res]

\* (a faulty end of sequence: Ok(None) instead of StopAsyncIteration)
StepOutcome_NoneAsValue(it) ==
    IF it # <<>>
    THEN IF IsOk(it[1])
         THEN Outcome("Value", Ok(ToObject(Val(it[1]))))
         ELSE Outcome("Panic", Panic("Error calling next on TransformerStream"))
    ELSE Outcome("Value", Ok(PyNone))
\* the body of the async block after the pull: Some(Ok(o)) is the value
\* o.to_object(py); Some(Err(_)) makes expect panic; None is the
\* PyStopAsyncIteration error
StepOutcome(it) ==
    IF it # <<>>
    THEN IF IsOk(it[1])
         THEN Outcome("Value", Ok(ToObject(Val(it[1]))))
         ELSE Outcome("Panic", Panic("Error calling next on TransformerStream"))
    ELSE Outcome("End", Err("StopAsyncIteration"))

\* (a faulty lock: the guard is handed out although another task holds it)
CanLock_NoMutex(l) == TRUE
\* tokio::sync::Mutex::lock completes at once only when the mutex is free
CanLock(l) == l = 0

\* (a faulty step that leaks the guard when the sequence has ended)
GuardDropped_NotOnEnd(o) == o.kind # "End"
\* (a faulty step that leaks the guard when it unwinds)
GuardDropped_NotOnPanic(o) == o.kind # "Panic"
\* the guard `ts` is a local of the async block: it is dropped when the block
\* ends, by return or by unwinding, whatever the outcome
GuardDropped(o) == TRUE

\* the mutex after its guard is dropped: handed to the oldest waiter
LockAfterRelease(w) == IF w # <<>> THEN Head(w) ELSE 0

\* (a faulty step that pulls a second element and keeps it for later)
NextPos_Prefetch(p, it) == IF it = <<>> THEN p ELSE p + 2
\* one ts.next() per step: the sequence moves on by the one element pulled
NextPos(p, it) == IF it = <<>> THEN p ELSE p + 1

\* (a faulty step whose clone of the Arc is never released)
RefsAfterBlock_Leak(n) == n
\* the clone `ts` of the Arc moved into the async block is dropped with it
RefsAfterBlock(n) == n - 1

StreamItems ==
    { Ok(JString("s")), Ok(JNumber(PosInt(I("zero", 1)))), Err("NativeFailure") }

Streams == UNION { [1..n -> StreamItems] : n \in 0..MaxStream }

SInit ==
    /\ stream \in Streams
    /\ pos = 0
    /\ sfailed = FALSE
    /\ lock = 0
    /\ waiters = <<>>
    /\ spc = [c \in Tasks |-> "idle"]
    /\ item = [c \in Tasks |-> <<>>]
    /\ itemidx = [c \in Tasks |-> 0]
    /\ issued = 0
    /\ resolved = <<>>
    /\ acquired = 0
    /\ ticket = [c \in Tasks |-> 0]
    /\ pulled = <<>>
    /\ handle = TRUE
    /\ refs = 1
    /\ sdropped = FALSE
    /\ abandoned = {}

\* __anext__: clones the Arc and hands the async block to future_into_py
Anext(c) ==
    /\ handle
    /\ spc[c] = "idle"
    /\ issued < MaxSteps
    /\ issued' = issued + 1
    /\ refs' = refs + 1
    /\ spc' = [spc EXCEPT ![c] = "spawned"]
    /\ UNCHANGED <<stream, pos, sfailed, lock, waiters, item, itemidx, resolved,
                   acquired, ticket, pulled, handle, sdropped, abandoned>>
    /\ UNCHANGED <<vvars, rvars, lvars>>

\* ts.lock().await, first poll: the guard, or a place in the queue
LockAcquire(c) ==
    /\ spc[c] = "spawned"
    /\ \/ /\ CanLock(lock)
          /\ lock' = c
          /\ spc' = [spc EXCEPT ![c] = "locked"]
          /\ acquired' = acquired + 1
          /\ ticket' = [ticket EXCEPT ![c] = acquired + 1]
          /\ UNCHANGED waiters
       \/ /\ ~CanLock(lock)
          /\ waiters' = Append(waiters, c)
          /\ spc' = [spc EXCEPT ![c] = "waiting"]
          /\ UNCHANGED <<lock, acquired, ticket>>
    /\ UNCHANGED <<stream, pos, sfailed, item, itemidx, issued, resolved,
                   pulled, handle, refs, sdropped, abandoned>>
    /\ UNCHANGED <<vvars, rvars, lvars>>

\* ts.next().await completes, the guard held
Pull(c) ==
    /\ spc[c] = "locked"
    /\ LET it == StreamNext(stream, pos, sfailed)
       IN  /\ item' = [item EXCEPT ![c] = it]
           /\ itemidx' = [itemidx EXCEPT ![c] = IF it = <<>> THEN 0 ELSE pos + 1]
           /\ pos' = NextPos(pos, it)
           /\ sfailed' = (sfailed \/ (it # <<>> /\ ~IsOk(it[1])))
           /\ pulled' = Append(pulled,
                 [by |-> c, idx |-> IF it = <<>> THEN 0 ELSE pos + 1])
    /\ spc' = [spc EXCEPT ![c] = "pulled"]
    /\ UNCHANGED <<stream, lock, waiters, issued, resolved,
                   acquired, ticket, handle, refs, sdropped, abandoned>>
    /\ UNCHANGED <<vvars, rvars, lvars>>

\* the async block ends: the future resolves, the guard is dropped, and so
\* is the block's clone of the Arc (and the sequence with the last clone)
Resolve(c) ==
    /\ spc[c] = "pulled"
    /\ LET o == StepOutcome(item[c])
       IN  /\ resolved' = Append(resolved,
                 [by |-> c, idx |-> itemidx[c], kind |-> o.kind, obj |-> o.obj,
                  ticket |-> ticket[c]])
           /\ IF GuardDropped(o)
              THEN /\ lock' = LockAfterRelease(waiters)
                   /\ waiters' = IF waiters # <<>> THEN Tail(waiters) ELSE waiters
                   /\ spc' = [t \in Tasks |->
                                IF t = c THEN "idle"
                                ELSE IF t = LockAfterRelease(waiters) THEN "locked"
                                ELSE spc[t]]
                   /\ acquired' = IF waiters # <<>> THEN acquired + 1 ELSE acquired
                   /\ ticket' = [t \in Tasks |->
                                IF t = c THEN 0
                                ELSE IF t = LockAfterRelease(waiters) THEN acquired + 1
                                ELSE ticket[t]]
              ELSE /\ spc' = [spc EXCEPT ![c] = "idle"]
                   /\ ticket' = [ticket EXCEPT ![c] = 0]
                   /\ UNCHANGED <<lock, waiters, acquired>>
    /\ item' = [item EXCEPT ![c] = <<>>]
    /\ itemidx' = [itemidx EXCEPT ![c] = 0]
    /\ refs' = RefsAfterBlock(refs)
    /\ sdropped' = (RefsAfterBlock(refs) = 0)
    /\ UNCHANGED <<stream, pos, sfailed, issued, pulled, handle, abandoned>>
    /\ UNCHANGED <<vvars, rvars, lvars>>

\* the host discards the iterator: the pyclass object is deallocated and its
\* field `wrapped` dropped; the async blocks under way keep their clones
DropHandle ==
    /\ handle
    /\ handle' = FALSE
    /\ refs' = refs - 1
    /\ sdropped' = (refs - 1 = 0)
    /\ abandoned' = { c \in Tasks : spc[c] # "idle" }
    /\ UNCHANGED <<stream, pos, sfailed, lock, waiters, spc, item, itemidx, issued,
                   resolved, acquired, ticket, pulled>>
    /\ UNCHANGED <<vvars, rvars, lvars>>

SNext ==
    \/ \E c \in Tasks : Anext(c) \/ LockAcquire(c) \/ Pull(c) \/ Resolve(c)
    \/ DropHandle

\* the tokio runtime polls every spawned future until it completes, and the
\* native sequence answers every poll in the end
SFair ==
    \A c \in Tasks :
        WF_vars(LockAcquire(c)) /\ WF_vars(Pull(c)) /\ WF_vars(Resolve(c))

\* no stream handed to the host
SIdle == SInit /\ stream = <<>>

----------------------------------------------------------------------------
(* The runtime singleton: static mut RUNTIME and get_or_set_runtime. The    *)
(* accessor takes no lock, so the steps of different threads interleave;    *)
(* the unsynchronized accesses are a data race, of whose outcomes these     *)
(* statement-level interleavings are the ones modelled.                     *)

Threads == 1..NumThreads

RInit ==
    /\ RUNTIME = 0
    /\ built = 0
    /\ dropped = {}
    /\ rpc = [t \in Threads |-> "idle"]
    /\ runtime = [t \in Threads |-> 0]
    /\ rdepth = [t \in Threads |-> 0]
    /\ rcalls = 0
    /\ overlapped = FALSE
    /\ returned = <<>>

\* a thread calls get_or_set_runtime()
RtCall(t) ==
    /\ rpc[t] = "idle"
    /\ rcalls < MaxCalls
    /\ rcalls' = rcalls + 1
    /\ rpc' = [rpc EXCEPT ![t] = "check"]
    /\ rdepth' = [rdepth EXCEPT ![t] = 0]
    /\ overlapped' = (overlapped \/ \E u \in Threads : rpc[u] # "idle")
    /\ UNCHANGED <<RUNTIME, built, dropped, runtime, returned>>
    /\ UNCHANGED <<vvars, svars, lvars>>

\* if let Some(r) = &RUNTIME { r } else { .. }
RtCheck(t) ==
    /\ rpc[t] = "check"
    /\ \/ /\ RUNTIME # 0
          /\ returned' = Append(returned,
                [by |-> t, id |-> RUNTIME, depth |-> rdepth[t]])
          /\ rpc' = [rpc EXCEPT ![t] = "idle"]
       \/ /\ RUNTIME = 0
          /\ rpc' = [rpc EXCEPT ![t] = "build"]
          /\ UNCHANGED returned
    /\ UNCHANGED <<RUNTIME, built, dropped, runtime, rdepth, rcalls, overlapped>>
    /\ UNCHANGED <<vvars, svars, lvars>>

\* let runtime = Builder::new_current_thread()...build().unwrap();
RtBuild(t) ==
    /\ rpc[t] = "build"
    /\ built' = built + 1
    /\ runtime' = [runtime EXCEPT ![t] = built + 1]
    /\ rpc' = [rpc EXCEPT ![t] = "set"]
    /\ UNCHANGED <<RUNTIME, dropped, rdepth, rcalls, overlapped, returned>>
    /\ UNCHANGED <<vvars, svars, lvars>>

\* (a faulty step that makes the recursive call without storing the runtime)
RtSet_NoStore(t) ==
    /\ rpc[t] = "set"
    /\ dropped' = dropped \cup {runtime[t]}
    /\ runtime' = [runtime EXCEPT ![t] = 0]
    /\ rdepth' = [rdepth EXCEPT ![t] = rdepth[t] + 1]
    /\ rpc' = [rpc EXCEPT ![t] = "check"]
    /\ UNCHANGED <<RUNTIME, built, rcalls, overlapped, returned>>
    /\ UNCHANGED <<vvars, svars, lvars>>

\* RUNTIME = Some(runtime); get_or_set_runtime()
\* the assignment drops the value the static held; the recursive call
\* starts at the check again
RtSet(t) ==
    /\ rpc[t] = "set"
    /\ dropped' = IF RUNTIME # 0 THEN dropped \cup {RUNTIME} ELSE dropped
    /\ RUNTIME' = runtime[t]
    /\ runtime' = [runtime EXCEPT ![t] = 0]
    /\ rdepth' = [rdepth EXCEPT ![t] = rdepth[t] + 1]
    /\ rpc' = [rpc EXCEPT ![t] = "check"]
    /\ UNCHANGED <<built, rcalls, overlapped, returned>>
    /\ UNCHANGED <<vvars, svars, lvars>>

RNext == \E t \in Threads : RtCall(t) \/ RtCheck(t) \/ RtBuild(t) \/ RtSet(t)

----------------------------------------------------------------------------
(* The logger singleton: SimpleLogger, init_logger, and its callers.        *)

\* log::Level and log::LevelFilter, by their discriminants
LevelRank == [Off |-> 0, Error |-> 1, Warn |-> 2, Info |-> 3, Debug |-> 4, Trace |-> 5]
Levels == {"Error", "Warn", "Info", "Debug", "Trace"}
LevelFilters == Levels \cup {"Off"}

\* SimpleLogger::enabled
enabled(level) == LevelRank[level] <= LevelRank["Info"]

\* log::set_logger: succeeds only while no logger is set
SetLogger(l) == IF l = "Nop" THEN Ok("SimpleLogger") ELSE Err("SetLoggerError")

LInit ==
    /\ logger = "Nop"
    /\ max_level = "Off"
    /\ installs = <<>>
    /\ out = <<>>
    /\ records = <<>>

\* init_logger(level), and, when the caller unwraps the result, its unwrap
InitLogger(who, level, unwraps) ==
    /\ Len(installs) < MaxInstalls
    /\ LET res == SetLogger(logger)
       IN  /\ logger' = IF IsOk(res) THEN Val(res) ELSE logger
           /\ max_level' = IF IsOk(res) THEN level ELSE max_level
           /\ installs' = Append(installs,
                 [who |-> who, level |-> level, res |-> res.r,
                  panicked |-> (unwraps /\ ~IsOk(res))])
    /\ UNCHANGED <<out, records>>
    /\ UNCHANGED <<vvars, svars, rvars>>

\* a direct call of init_logger with some level, the result left to the caller
InitLoggerCall == \E l \in LevelFilters : InitLogger("init_logger", l, FALSE)

\* the module initialisation: init_logger(LevelFilter::Error).unwrap()
PgmlModuleInit == InitLogger("pgml", "Error", TRUE)

\* the test: init_logger(LevelFilter::Warn).unwrap()
TestInit == InitLogger("test", "Warn", TRUE)

\* a log!(level, message): the macro's max_level test, then Log::log
LogRecord ==
    \E level \in Levels, msg \in {"m"} :
        /\ Len(records) < MaxLines
        /\ LET written == /\ LevelRank[level] <= LevelRank[max_level]
                          /\ logger = "SimpleLogger"
                          /\ enabled(level)
           IN  /\ out' = IF written THEN Append(out, <<level, msg>>) ELSE out
               /\ records' = Append(records,
                     [level |-> level, msg |-> msg, logger |-> logger,
                      filter |-> max_level, lines |-> Len(out') - Len(out)])
        /\ UNCHANGED <<logger, max_level, installs>>
    /\ UNCHANGED <<vvars, svars, rvars>>

LNext == InitLoggerCall \/ PgmlModuleInit \/ TestInit \/ LogRecord

----------------------------------------------------------------------------
(* Specifications, one per component                                        *)

InitValue == VInit /\ SIdle /\ RInit /\ LInit
SpecValue == InitValue /\ [][VNext]_vars

InitStream == SInit /\ VIdle /\ RInit /\ LInit
SpecStream == InitStream /\ [][SNext]_vars
FairSpecStream == InitStream /\ [][SNext]_vars /\ SFair

InitRuntime == RInit /\ VIdle /\ SIdle /\ LInit
SpecRuntime == InitRuntime /\ [][RNext]_vars

InitLog == LInit /\ VIdle /\ SIdle /\ RInit
SpecLogger == InitLog /\ [][LNext]_vars

----------------------------------------------------------------------------
(* Properties of the value bridge (checked under SpecValue)                 *)

\* the host objects ob holds at the places extract visits: itself, the items
\* of a list, the values of a dict
RECURSIVE Visited(_)
Visited(ob) ==
    {ob} \cup (IF ob.t \in {"list", "dict"}
               THEN UNION { Visited(ob.c[i]) : i \in 1..Len(ob.c) }
               ELSE {})

SupportedTypes == {"dict", "bool", "int", "float", "str", "list", "NoneType"}

\* every Number of j is a float or an integer of the signed 64-bit range
RECURSIVE Representable(_)
Representable(j) ==
    CASE j.k = "Number" -> is_f64(j.n) \/ InI64(j.n.i)
      [] j.k \in {"Array", "Object"} ->
            \A i \in 1..Len(j.c) : Representable(j.c[i])
      [] OTHER -> TRUE

\* C5: extract of a host value that holds an object of an unsupported type,
\* at top level or nested in a list or dict, returns a recoverable error to
\* the caller: it neither succeeds nor panics.
C5_UnsupportedTypeIsAnError ==
    (vpc = "extract" /\ \E x \in Visited(vob) : x.t \notin SupportedTypes)
        => vout.r = "Err"

\* C6: extract of a host float that is NaN or infinite returns a recoverable
\* error to the caller: it neither succeeds nor panics.
C6_InvalidFloatIsAnError ==
    (vpc = "extract" /\ vob.t = "float" /\ vob.f \in NonFinite)
        => vout.r = "Err"

\* C8: for every dynamic value whose numbers are representable, into_py
\* succeeds and extract of its result gives back the same value: same
\* variant and number tag everywhere, same element order, same key order.
C8_RoundTrip ==
    /\ (vpc = "into_py" /\ Representable(vjson)) => IsOk(vhost)
    /\ vpc = "roundtrip" => vout = Ok(vjson)

\* a round trip of an Object of two entries whose keys are not in sorted order
C8_Witness ==
    /\ vpc = "roundtrip"
    /\ vjson.k = "Object"
    /\ vjson.ks = <<"b", "a">>
    /\ vout = Ok(vjson)

\* C9: into_py returns a host object for every dynamic value, never a panic;
\* an integer Number becomes a host int and a float Number a host float.
C9_IntoPyTotal ==
    vpc = "into_py" =>
        /\ IsOk(vhost)
        /\ vjson.k = "Number" =>
              Val(vhost).t = (IF is_f64(vjson.n) THEN "float" ELSE "int")

\* C13: extract of a host int outside the signed 64-bit range returns the
\* recoverable OverflowError to the caller, it does not panic, and no result
\* of extract holds a Number made of such an int, wherever the int stands;
\* an int inside the range becomes the Number of the same value.
C13_IntRangeRejected ==
    vpc = "extract" =>
        /\ (vob.t = "int" /\ ~InI64(vob.i)) => vout = Err("OverflowError")
        /\ (\E x \in Visited(vob) : x.t = "int" /\ ~InI64(x.i)) => ~IsOk(vout)
        /\ (vob.t = "int" /\ InI64(vob.i)) =>
              (IsOk(vout) /\ Val(vout).k = "Number" /\ Val(vout).n.i = vob.i)

\* the int 2^63, one above the range, was rejected with the error
C13_Witness ==
    /\ vpc = "extract"
    /\ vob = PyInt(I("i64max", 1))
    /\ vout = Err("OverflowError")

\* the variant extract gives to a host value of each supported type
VariantOf ==
    [dict |-> "Object", bool |-> "Bool", int |-> "Number", float |-> "Number",
     str |-> "String", list |-> "Array", NoneType |-> "Null"]

\* j has, at every place, the variant of the host value ob has at that place
RECURSIVE Mirrors(_, _)
Mirrors(ob, j) ==
    /\ j.k = VariantOf[ob.t]
    /\ ob.t = "bool" => j = JBool(ob.b)
    /\ ob.t \in {"list", "dict"} =>
          /\ Len(j.c) = Len(ob.c)
          /\ \A i \in 1..Len(ob.c) : Mirrors(ob.c[i], j.c[i])

\* C19: a host bool converts to the Bool of its truth value, never to a
\* Number, at top level and nested; and every value extract accepts gets the
\* one variant of its host type at every place.
C19_BoolNeverNumber ==
    vpc = "extract" =>
        /\ vob.t = "bool" => vout = Ok(JBool(vob.b))
        /\ IsOk(vout) => Mirrors(vob, Val(vout))

\* a list holding True and the int 1 converts to [Bool(true), Number(1)]
C19_Witness ==
    /\ vpc = "extract"
    /\ vob = PyList(<<PyBool(TRUE), PyInt(I("zero", 1))>>)
    /\ vout = Ok(JArray(<<JBool(TRUE), JNumber(PosInt(I("zero", 1)))>>))

----------------------------------------------------------------------------
(* Properties of the stream bridge (checked under SpecStream)               *)

AllOk(seq) == \A k \in 1..Len(seq) : IsOk(seq[k])
EndSeen == \E i \in 1..Len(resolved) : resolved[i].kind = "End"
InFlight == { c \in Tasks : spc[c] # "idle" }
Holding == { c \in Tasks : spc[c] \in {"locked", "pulled"} }

\* C2: the step that pulls a failure resolves to a host-visible error (not a
\* value, not a panic), and no step that resolves after it yields a value.
C2_FailureIsHostError ==
    \A i \in 1..Len(resolved) :
        (resolved[i].idx # 0 /\ ~IsOk(stream[resolved[i].idx])) =>
            /\ resolved[i].kind = "Error"
            /\ \A j \in (i + 1)..Len(resolved) : resolved[j].kind # "Value"

\* C3: a native sequence of N successful elements yields its N elements, in
\* order and converted, as the first N outcomes, and End from then on.
C3_Exhaustion ==
    AllOk(stream) =>
        \A i \in 1..Len(resolved) :
            IF i <= Len(stream)
            THEN /\ resolved[i].kind = "Value"
                 /\ resolved[i].idx = i
                 /\ resolved[i].obj = Ok(ToObject(Val(stream[i])))
            ELSE /\ resolved[i].kind = "End"
                 /\ resolved[i].idx = 0

\* two values, then End
C3_Witness ==
    /\ Len(stream) = 2
    /\ AllOk(stream)
    /\ Len(resolved) = 3
    /\ resolved[2].kind = "Value"
    /\ resolved[3].kind = "End"

\* C4: at most one task holds the guard, and only a task holding it pulls;
\* every element the sequence emitted is with exactly one task, either
\* delivered to it once or still in its hands; once the end of a sequence of
\* successes is reached the values delivered are as many as its elements.
C4_Serialized ==
    /\ Cardinality(Holding) <= 1
    /\ \A c \in Holding : lock = c
    /\ \A i, j \in 1..Len(resolved) :
          (i # j /\ resolved[i].idx # 0) => resolved[i].idx # resolved[j].idx
    /\ \A c \in Tasks : \A i \in 1..Len(resolved) :
          itemidx[c] # 0 => resolved[i].idx # itemidx[c]
    /\ { resolved[i].idx : i \in 1..Len(resolved) } \cup { itemidx[c] : c \in Tasks }
          \cup {0} = 0..pos
    /\ (AllOk(stream) /\ EndSeen) =>
          Cardinality({ i \in 1..Len(resolved) : resolved[i].kind = "Value" })
              = Len(stream)

\* a task holds an element while the task that got the first one waits
C4_Witness ==
    \E c, d \in Tasks :
        /\ spc[c] = "pulled" /\ itemidx[c] = 2
        /\ spc[d] = "waiting"
        /\ Len(resolved) = 1 /\ resolved[1].by = d /\ resolved[1].kind = "Value"

\* C10: after a step has resolved to End every step resolving later resolves
\* to End, and a step under way then is never stuck: it can always take its
\* next step or is queued behind a task that can.
C10_EndIsIdempotent ==
    /\ \A i, j \in 1..Len(resolved) :
          (i < j /\ resolved[i].kind = "End") => resolved[j].kind = "End"
    /\ (EndSeen /\ InFlight # {}) =>
          ENABLED (\E c \in Tasks : LockAcquire(c) \/ Pull(c) \/ Resolve(c))

\* End, and End again for a step issued after it
C10_Witness ==
    /\ Len(resolved) >= 2
    /\ resolved[Len(resolved) - 1].kind = "End"
    /\ resolved[Len(resolved)].kind = "End"

\* C11: the sequence is dropped only once the host has let go of the
\* iterator and no step is under way, and it is dropped as soon as both hold;
\* after the host lets go, also with steps under way, the lock becomes free
\* and the sequence dropped in the end; the element an abandoned step pulled
\* is with no other step, and every element delivered was pulled by the step
\* that delivers it.
C11_Cancellation ==
    /\ [](sdropped <=> (~handle /\ InFlight = {}))
    /\ [](sdropped => lock = 0)
    /\ (~handle) ~> (lock = 0 /\ sdropped)
    /\ [](\A c \in abandoned : \A i \in 1..Len(resolved) :
            (itemidx[c] # 0 /\ resolved[i].idx = itemidx[c]) => resolved[i].by = c)
    /\ [](\A i \in 1..Len(resolved) :
            resolved[i].by = pulled[i].by /\ resolved[i].idx = pulled[i].idx)

\* the host let go with a step under way and elements left; the step has
\* ended, the lock is free and the sequence dropped
C11_Witness ==
    /\ ~handle
    /\ abandoned # {}
    /\ pos < Len(stream)
    /\ \E i \in 1..Len(resolved) : resolved[i].by \in abandoned /\ resolved[i].idx = pos
    /\ lock = 0
    /\ sdropped

\* how many elements the sequence emits: all of them, or those up to its
\* first failure
Emitted(seq) ==
    IF AllOk(seq) THEN Len(seq)
    ELSE CHOOSE k \in 1..Len(seq) :
            ~IsOk(seq[k]) /\ \A h \in 1..(k - 1) : IsOk(seq[h])

\* C14: the j-th step to acquire the lock is the j-th to resolve and is
\* given the j-th element the sequence emits (nothing once it emits no
\* more), and a value delivered is the conversion of that element.
C14_DeliveryOrder ==
    /\ \A i \in 1..Len(resolved) :
          /\ resolved[i].ticket = i
          /\ resolved[i].idx = (IF i <= Emitted(stream) THEN i ELSE 0)
          /\ resolved[i].kind = "Value" =>
                resolved[i].obj = Ok(ToObject(Val(stream[i])))
    /\ \A c \in Tasks :
          spc[c] = "pulled" =>
              itemidx[c] = (IF ticket[c] <= Emitted(stream) THEN ticket[c] ELSE 0)

\* two steps of different tasks, under way together, got elements 1 and 2
C14_Witness ==
    \E c, d \in Tasks :
        /\ c # d
        /\ Len(resolved) = 1
        /\ resolved[1].by = c /\ resolved[1].idx = 1 /\ resolved[1].kind = "Value"
        /\ spc[d] = "pulled" /\ ticket[d] = 2 /\ itemidx[d] = 2
        /\ spc[c] = "idle"

\* C15: the lock is held by a task exactly while that task is between its
\* acquisition and the end of its step, so it is free whenever no step is
\* under way; and every step under way, also one issued after a step that
\* failed, acquires the lock in the end.
C15_LockDiscipline ==
    /\ [](InFlight = {} => lock = 0)
    /\ [](\A c \in Tasks : (lock = c) <=> (spc[c] \in {"locked", "pulled"}))
    /\ \A c \in Tasks :
          (spc[c] \in {"spawned", "waiting"}) ~> (spc[c] = "locked")

\* a step holds the lock after the step before it ended in a panic
C15_Witness ==
    /\ Len(resolved) >= 1
    /\ resolved[Len(resolved)].kind = "Panic"
    /\ \E c \in Tasks : spc[c] = "locked" /\ lock = c

\* C16: the pulls made are never more than the steps issued; the sequence
\* has moved on by exactly the elements pulled; every pull belongs to a step
\* that has resolved with what it pulled or to the one step still holding it.
C16_NoPrefetch ==
    /\ Len(pulled) <= issued
    /\ pos = Cardinality({ i \in 1..Len(pulled) : pulled[i].idx # 0 })
    /\ Len(pulled) = Len(resolved) + Cardinality({ c \in Tasks : spc[c] = "pulled" })
    /\ \A i \in 1..Len(resolved) :
          pulled[i] = [by |-> resolved[i].by, idx |-> resolved[i].idx]
    /\ \A c \in Tasks :
          spc[c] = "pulled" => pulled[Len(pulled)] = [by |-> c, idx |-> itemidx[c]]

\* one element delivered, a second step issued and holding the lock, and the
\* second element still in the sequence
C16_Witness ==
    /\ Len(stream) = 2
    /\ issued = 2
    /\ Len(pulled) = 1
    /\ Len(resolved) = 1
    /\ pos = 1
    /\ \E c \in Tasks : spc[c] = "locked"

----------------------------------------------------------------------------
(* Properties of the runtime singleton (checked under SpecRuntime)          *)

\* C1: whatever the interleaving of the callers' check and set steps, one
\* runtime is built and every caller is returned that one instance.
C1_SingletonIdentity ==
    /\ built <= 1
    /\ \A i, j \in 1..Len(returned) : returned[i].id = returned[j].id

\* C17: while no call has started during another, one runtime at most is
\* built and none dropped, one call at most is under way, a call makes one
\* recursive self-call if it is the first and none otherwise, every call
\* returns the first runtime, and a call under way can always take its next
\* step.
C17_SequentialAccess ==
    ~overlapped =>
        /\ built <= 1
        /\ dropped = {}
        /\ Cardinality({ t \in Threads : rpc[t] # "idle" }) <= 1
        /\ \A t \in Threads : rdepth[t] <= 1
        /\ \A i \in 1..Len(returned) :
              /\ returned[i].id = 1
              /\ returned[i].depth = (IF i = 1 THEN 1 ELSE 0)
        /\ \A t \in Threads :
              rpc[t] # "idle" => ENABLED (RtCheck(t) \/ RtBuild(t) \/ RtSet(t))

\* three calls one after the other, made by different threads, have returned
C17_Witness ==
    /\ ~overlapped
    /\ Len(returned) = 3
    /\ returned[1].by # returned[2].by
    /\ built = 1

\* C18: a runtime that was returned to a caller is still the one the static
\* holds and has not been dropped.
C18_ReturnedStaysValid ==
    \A i \in 1..Len(returned) :
        /\ returned[i].id = RUNTIME
        /\ returned[i].id \notin dropped

----------------------------------------------------------------------------
(* Properties of the logger singleton (checked under SpecLogger)            *)

\* C7: an install attempt made after the logger was installed returns no
\* error to its caller and does not panic, and the logger stays installed.
C7_ReinstallHarmless ==
    \A i \in 1..Len(installs) :
        (\E h \in 1..(i - 1) : installs[h].res = "Ok") =>
            /\ installs[i].res # "Err"
            /\ ~installs[i].panicked
            /\ logger = "SimpleLogger"

\* C12: once the logger is installed with a level filter, a record logged is
\* printed, as one line of its level and message, if and only if its level is
\* at least as severe as the filter.
C12_SeverityFilter ==
    /\ \A i \in 1..Len(records) :
          records[i].logger = "SimpleLogger" =>
              records[i].lines =
                  (IF LevelRank[records[i].level] <= LevelRank[records[i].filter]
                   THEN 1 ELSE 0)
    /\ \A i \in 1..Len(out) : out[i][1] \in Levels /\ out[i][2] = "m"

====
